---------------------------- MODULE Spec2Model ----------------------------
(***************************************************************************)
(* Model of app.py, a Streamlit quiz viewer.                               *)
(*                                                                         *)
(* Streamlit runs the whole script top to bottom on every user             *)
(* interaction; st.session_state survives between runs, the script's own   *)
(* globals (question, selected, saved_choice, ...) are those of the last   *)
(* run and are what the page shows.  One action of the model is one user   *)
(* interaction: the widget event, the script run it triggers, and the      *)
(* runs that st.rerun() chains after it.  The questions file lives on disk *)
(* and may be rewritten between two interactions; every run reloads it     *)
(* (line 85).  The st.cache_data cache of load_questions is keyed by the   *)
(* file's mtime, which every rewrite changes, so a load yields the         *)
(* normalised content of the file as it is at the time of the run.         *)
(*                                                                         *)
(* Python's None is modelled by the empty set where the other values are   *)
(* integers (an optional integer is a set of at most one element), and by  *)
(* NoSubject for the subject key.  Indices are 0-based as in the code;     *)
(* a Python list l is a sequence and l[i] is l[i + 1].                     *)
(***************************************************************************)
EXTENDS Integers, Sequences, FiniteSets, TLC

VARIABLES
    file,          \* data/questions.json on disk
    qbank,         \* st.session_state.qbank
    subject,       \* st.session_state.subject
    qidx,          \* st.session_state.qidx
    responses,     \* st.session_state.responses
    started,       \* st.session_state.started
    screen,        \* what the last run rendered before it stopped
    question,      \* the script's `question` (line 158) of the last run
    saved_choice,  \* the script's `saved_choice` (line 186) of the last run
    selected,      \* the script's `selected` (line 189) of the last run
    feedback,      \* the st.success / st.error of the check handler
    progress,      \* the progress summary written at the end of the run
    subjects,      \* the script's `subjects` (line 88) of the last run
    last,          \* the widget event that triggered the last run
    handled        \* the handlers that ran in the interaction it started

vars == <<file, qbank, subject, qidx, responses, started,
          screen, question, saved_choice, selected, feedback, progress,
          subjects, last, handled>>

-----------------------------------------------------------------------------
(* Bounds and input sets *)

\* Longest question list of a subject in the files the model draws from.
MaxQ == 2

\* ["①", "②", "③", "④", "⑤"]: the number of fallback choices
FallbackChoices == 5

NoSubject == "<None>"

Max(a, b) == IF a >= b THEN a ELSE b
Min(a, b) == IF a <= b THEN a ELSE b

\* A question record: `choices` is len(question["choices"]) (0: the key is
\* absent or the list is empty), `answer` is question.get("answer").
Q(id, n, ans) == [id |-> id, choices |-> n, answer |-> ans]

NoQuestion == Q(0, 0, {})

qA0 == Q(1, 2, {0})     \* well-formed, answer ①
qA1 == Q(2, 2, {1})     \* well-formed, answer ②
qNoAns == Q(3, 2, {})   \* "answer" missing / null
qHigh == Q(4, 2, {2})   \* answer index >= len(choices)
qNeg == Q(5, 2, {-1})   \* negative answer index
qBare == Q(6, 0, {1})   \* no choices: the fallback list is shown

\* One top-level entry of the JSON object: "name": null | [questions]
E(name, isnull, qs) == [name |-> name, null |-> isnull, qs |-> qs]

Json(data) == [kind |-> "json", data |-> data]
Absent == [kind |-> "absent", data |-> <<>>]
Malformed == [kind |-> "malformed", data |-> <<>>]

AllFiles ==
    { Absent,
      Malformed,
      Json(<<E("A", FALSE, <<qA0, qA1>>), E("B", FALSE, <<qA1>>)>>),
      Json(<<E("A", FALSE, <<qA1>>), E("B", FALSE, <<qBare>>)>>),
      Json(<<E("B", TRUE, <<>>), E("A", FALSE, <<qNoAns, qHigh>>)>>),
      Json(<<E("B", FALSE, <<qNeg, qBare>>), E("A", FALSE, <<qA0>>)>>),
      Json(<<E("A", FALSE, <<>>), E("B", TRUE, <<>>)>>),
      Json(<<E("A", FALSE, <<qA0, qA1, qNoAns>>), E("B", FALSE, <<qA1>>)>>) }

Files ==
    { f \in AllFiles : \A i \in DOMAIN f.data : Len(f.data[i].qs) <= MaxQ }


-----------------------------------------------------------------------------
(* Utilities (lines 24-77) *)

\* Mutant: a subject whose value is null is left out of the bank.
load_questions_drops_null(f) ==
    LET kept(e) == ~e.null
        items == SelectSeq(f.data, kept)
    IN IF f.kind = "absent" THEN [raised |-> FALSE, data |-> <<>>]
       ELSE IF f.kind = "malformed" THEN [raised |-> TRUE, data |-> <<>>]
       ELSE [raised |-> FALSE,
             data |-> [i \in DOMAIN items |->
                         [name |-> items[i].name, qs |-> items[i].qs]]]

\* load_questions: {} when the file is absent, an uncaught exception of
\* json.load when it is not JSON, else the object with every null value
\* replaced by [].  A loaded bank is the sequence of its items in key order.
load_questions(f) ==
    IF f.kind = "absent" THEN [raised |-> FALSE, data |-> <<>>]
    ELSE IF f.kind = "malformed" THEN [raised |-> TRUE, data |-> <<>>]
    ELSE [raised |-> FALSE,
          data |-> [i \in DOMAIN f.data |->
                      [name |-> f.data[i].name,
                       qs |-> IF f.data[i].null THEN <<>> ELSE f.data[i].qs]]]

Keys(bank) == [i \in DOMAIN bank |-> bank[i].name]

\* qbank.get(subject, [])
BankGet(bank, subj) ==
    IF \E i \in DOMAIN bank : bank[i].name = subj
    THEN bank[CHOOSE i \in DOMAIN bank : bank[i].name = subj].qs
    ELSE <<>>

IsNonEmpty(e) == Len(e.qs) > 0

\* Mutant: no fallback to all subjects when every list is empty.
get_subject_list_no_fallback(bank) == Keys(SelectSeq(bank, IsNonEmpty))

get_subject_list(bank) ==
    LET subjs == Keys(SelectSeq(bank, IsNonEmpty))
    IN IF subjs = <<>> THEN Keys(bank) ELSE subjs

Range(seq) == { seq[i] : i \in DOMAIN seq }

\* subs[0] if subs else None
FirstOrNone(subs) == IF subs = <<>> THEN NoSubject ELSE subs[1]

\* subjects.index(s), 0-based
IndexOf(seq, x) == (CHOOSE i \in DOMAIN seq : seq[i] = x) - 1

EmptyDict == <<>>

\* Mutant: the first key of the bank instead of the first selectable subject.
ensure_session_keys_first_key(bank) ==
    [qbank |-> bank,
     subject |-> FirstOrNone(Keys(bank)),
     qidx |-> 0,
     responses |-> EmptyDict,
     started |-> FALSE]

\* The session keys set by ensure_session_keys in a session that has none.
ensure_session_keys(bank) ==
    [qbank |-> bank,
     subject |-> FirstOrNone(get_subject_list(bank)),
     qidx |-> 0,
     responses |-> EmptyDict,
     started |-> FALSE]

\* Mutant: the question is read at qidx - 1 (Python wraps -1 to the end).
get_current_question_off_by_one(ss) ==
    LET qlist == BankGet(ss.qbank, ss.subject)
        i == Max(0, Min(ss.qidx, Len(qlist) - 1))
    IN IF qlist = <<>>
       THEN [none |-> TRUE, question |-> NoQuestion, total |-> 0, qidx |-> ss.qidx]
       ELSE [none |-> FALSE, question |-> qlist[IF i = 0 THEN Len(qlist) ELSE i],
             total |-> Len(qlist), qidx |-> i]

\* get_current_question: (question, total), and the clamped index it
\* writes back to the session; (None, 0) when the list is empty.
get_current_question(ss) ==
    LET qlist == BankGet(ss.qbank, ss.subject)
        i == Max(0, Min(ss.qidx, Len(qlist) - 1))
    IN IF qlist = <<>>
       THEN [none |-> TRUE, question |-> NoQuestion, total |-> 0, qidx |-> ss.qidx]
       ELSE [none |-> FALSE, question |-> qlist[i + 1], total |-> Len(qlist), qidx |-> i]

\* Mutant: an existing entry is kept (setdefault instead of assignment).
record_response_keep(resp, subj, i, choice_idx, is_correct) ==
    LET r1 == IF subj \in DOMAIN resp THEN resp ELSE (subj :> EmptyDict) @@ resp
        entry == [choice |-> choice_idx, is_correct |-> is_correct]
    IN [r1 EXCEPT ![subj] = r1[subj] @@ (i :> entry)]

\* Mutant: answers are appended, keyed by their rank, not by the question.
record_response_append(resp, subj, i, choice_idx, is_correct) ==
    LET r1 == IF subj \in DOMAIN resp THEN resp ELSE (subj :> EmptyDict) @@ resp
        entry == [choice |-> choice_idx, is_correct |-> is_correct]
    IN [r1 EXCEPT ![subj] = (Cardinality(DOMAIN r1[subj]) :> entry) @@ r1[subj]]

record_response(resp, subj, i, choice_idx, is_correct) ==
    LET r1 == IF subj \in DOMAIN resp THEN resp ELSE (subj :> EmptyDict) @@ resp
        entry == [choice |-> choice_idx, is_correct |-> is_correct]
    IN [r1 EXCEPT ![subj] = (i :> entry) @@ r1[subj]]

\* Mutant: the saved choice is looked up under the 1-based question number.
get_saved_choice_one_based(resp, subj, i) ==
    IF subj \in DOMAIN resp /\ (i + 1) \in DOMAIN resp[subj]
    THEN {resp[subj][i + 1].choice}
    ELSE {}

\* The recorded choice, or None (the empty set) when the lookup raises.
get_saved_choice(resp, subj, i) ==
    IF subj \in DOMAIN resp /\ i \in DOMAIN resp[subj]
    THEN {resp[subj][i].choice}
    ELSE {}

\* responses.get(subject, {})
RespGet(resp, subj) == IF subj \in DOMAIN resp THEN resp[subj] ELSE EmptyDict

-----------------------------------------------------------------------------
(* One run of the script (lines 82-235) *)

\* A widget event: the widget the user acted on and the value entered.
Ev(kind, subj, num) == [kind |-> kind, subj |-> subj, num |-> num]
NoEvent == Ev("none", NoSubject, 0)

NoFeedback == [kind |-> "none", shown |-> {}]

\* No progress summary on the page.
NoProgress == [shown |-> FALSE, solved |-> 0, total |-> 0, correct |-> 0]

\* What a run leaves behind: the session, what it rendered, the script
\* globals the properties read, the handlers h that ran (the branches of the
\* script that write the session), and whether it ended in st.rerun().
Out(ss, scr, q, sc, sel, fb, rr, h) ==
    [ss |-> ss, screen |-> scr, question |-> q, saved_choice |-> sc,
     selected |-> sel, feedback |-> fb, progress |-> NoProgress,
     subjects |-> <<>>, rerun |-> rr, handled |-> h]

\* A run ends in st.stop(), at the end of the script, or in an uncaught
\* exception; the page then holds what the run rendered up to that point:
\*   "landing"                 the start button (st.stop, line 106)
\*   "no_subjects"             the sidebar and the warning (line 156)
\*   "no_questions"            the sidebar and the notice (line 164)
\*   "question"                the sidebar and the question with its buttons
\*   "load_exception"          nothing: json.load raised at line 85
\*   "number_input_exception"  the sidebar down to the selectbox:
\*                             st.number_input raised at line 142
Stop(ss, scr, h) == Out(ss, scr, NoQuestion, {}, 0, NoFeedback, FALSE, h)
Rerun(ss, h) == Out(ss, "rerun", NoQuestion, {}, 0, NoFeedback, TRUE, h)

\* Streamlit keeps a widget's value between runs under an identity computed
\* from the widget's parameters: a value the user entered reaches the run
\* only when the run builds the widget with the parameters it was rendered
\* with; otherwise the widget is new and returns its default.
SelectboxId(subjs, subj) ==
    <<subjs, IF subj \in Range(subjs) THEN IndexOf(subjs, subj) ELSE 0>>
NumberInputId(total_q, i) == <<1, total_q, i + 1>>
RadioId(n, preselect) == <<n, preselect>>

\* choices = raw_choices if raw_choices else ["①", ..., "⑤"]
NumChoices(q) == IF q.choices = 0 THEN FallbackChoices ELSE q.choices

\* preselect_index (line 187)
Preselect(saved, n) ==
    IF saved # {} /\ (\A c \in saved : 0 <= c /\ c < n)
    THEN CHOOSE c \in saved : TRUE
    ELSE 0

\* Mutant: the answer is taken as 1-based (1 = ①).
CheckHandler_one_based(ss, q, sel) ==
    LET n == NumChoices(q)
        a == (CHOOSE x \in q.answer : TRUE) - 1
        is_correct == (sel = a)
        rec == [ss EXCEPT !.responses =
                   record_response(ss.responses, ss.subject, ss.qidx, sel, is_correct)]
    IN IF q.answer = {}
       THEN [ss |-> ss, feedback |-> [kind |-> "answer_missing", shown |-> {}]]
       ELSE IF is_correct
       THEN [ss |-> rec, feedback |-> [kind |-> "correct", shown |-> {sel}]]
       ELSE IF 0 <= a /\ a < n
       THEN [ss |-> rec, feedback |-> [kind |-> "incorrect", shown |-> {a}]]
       ELSE IF 0 - n <= a /\ a < 0
       THEN [ss |-> rec, feedback |-> [kind |-> "incorrect", shown |-> {n + a}]]
       ELSE [ss |-> rec, feedback |-> [kind |-> "incorrect_out_of_range", shown |-> {}]]

\* Mutant: a missing answer is judged as a wrong answer.
CheckHandler_none_is_wrong(ss, q, sel) ==
    LET n == NumChoices(q)
        a == IF q.answer = {} THEN n ELSE CHOOSE x \in q.answer : TRUE
        is_correct == (sel = a)
        rec == [ss EXCEPT !.responses =
                   record_response(ss.responses, ss.subject, ss.qidx, sel, is_correct)]
    IN IF is_correct
       THEN [ss |-> rec, feedback |-> [kind |-> "correct", shown |-> {sel}]]
       ELSE IF 0 <= a /\ a < n
       THEN [ss |-> rec, feedback |-> [kind |-> "incorrect", shown |-> {a}]]
       ELSE IF 0 - n <= a /\ a < 0
       THEN [ss |-> rec, feedback |-> [kind |-> "incorrect", shown |-> {n + a}]]
       ELSE [ss |-> rec, feedback |-> [kind |-> "incorrect_out_of_range", shown |-> {}]]

\* The check handler (lines 207-220) on question q with `sel` selected.
\* choices[int(correct_index)] follows Python indexing: a negative index
\* counts from the end, an index outside [-n, n) raises IndexError.
CheckHandler(ss, q, sel) ==
    LET n == NumChoices(q)
        a == CHOOSE x \in q.answer : TRUE
        is_correct == (sel = a)
        rec == [ss EXCEPT !.responses =
                   record_response(ss.responses, ss.subject, ss.qidx, sel, is_correct)]
    IN IF q.answer = {}
       THEN [ss |-> ss, feedback |-> [kind |-> "answer_missing", shown |-> {}]]
       ELSE IF is_correct
       THEN [ss |-> rec, feedback |-> [kind |-> "correct", shown |-> {sel}]]
       ELSE IF 0 <= a /\ a < n
       THEN [ss |-> rec, feedback |-> [kind |-> "incorrect", shown |-> {a}]]
       ELSE IF 0 - n <= a /\ a < 0
       THEN [ss |-> rec, feedback |-> [kind |-> "incorrect", shown |-> {n + a}]]
       ELSE [ss |-> rec, feedback |-> [kind |-> "incorrect_out_of_range", shown |-> {}]]

\* Mutant: every solved question is counted as correct.
ProgressSummary_all_correct(resp, subj, total_q) ==
    LET r == RespGet(resp, subj)
    IN [shown |-> total_q > 0,
        solved |-> Cardinality(DOMAIN r),
        total |-> total_q,
        correct |-> Cardinality(DOMAIN r)]

\* The progress summary (lines 230-235), written when total_q > 0.
ProgressSummary(resp, subj, total_q) ==
    LET r == RespGet(resp, subj)
    IN [shown |-> total_q > 0,
        solved |-> Cardinality(DOMAIN r),
        total |-> total_q,
        correct |-> Cardinality({i \in DOMAIN r : r[i].is_correct})]

\* Mutant: the next index is not clamped to the last question.
NextIndex_unclamped(total_q, i) == i + 1

\* The index the "이전 문제" handler stores (line 223).
PrevIndex(i) == Max(0, i - 1)

\* The index the "다음 문제" handler stores (line 227).
NextIndex(total_q, i) == Min(total_q - 1, i + 1)

\* Main UI (lines 152-235), after the sidebar.
MainUI(ss, ev, wid, subjs, h) ==
    IF subjs = <<>> \/ ss.subject = NoSubject
    THEN Stop(ss, "no_subjects", h)
    ELSE
    LET g == get_current_question(ss)
        s1 == [ss EXCEPT !.qidx = g.qidx]
        n == NumChoices(g.question)
        saved == get_saved_choice(s1.responses, s1.subject, s1.qidx)
        pre == Preselect(saved, n)
        sel == IF ev.kind = "check" /\ wid = RadioId(n, pre) THEN ev.num ELSE pre
        chk == CheckHandler(s1, g.question, sel)
    IN IF g.none
       THEN Stop(ss, "no_questions", h)
       ELSE IF ev.kind = "check"
       THEN [Out(chk.ss, "question", g.question, saved, sel, chk.feedback, FALSE,
                 h \cup {"check"})
             EXCEPT !.progress =
                 ProgressSummary(chk.ss.responses, chk.ss.subject, g.total)]
       ELSE IF ev.kind = "prev"
       THEN Rerun([s1 EXCEPT !.qidx = PrevIndex(s1.qidx)], h \cup {"prev"})
       ELSE IF ev.kind = "next"
       THEN Rerun([s1 EXCEPT !.qidx = NextIndex(g.total, s1.qidx)], h \cup {"next"})
       ELSE [Out(s1, "question", g.question, saved, sel, NoFeedback, FALSE, h)
             EXCEPT !.progress =
                 ProgressSummary(s1.responses, s1.subject, g.total)]

\* Mutant: a subject switch keeps the responses of the subject left.
SwitchSubject_keeps_responses(ss, new_subj) ==
    [ss EXCEPT !.subject = new_subj, !.qidx = 0]

\* Mutant: the index is not reset.
SwitchSubject_keeps_index(ss, new_subj) ==
    [ss EXCEPT !.subject = new_subj, !.responses = EmptyDict]

\* The subject selectbox handler (lines 131-135).
SwitchSubject(ss, new_subj) ==
    [ss EXCEPT !.subject = new_subj, !.qidx = 0, !.responses = EmptyDict]

\* Mutant: the refresh keeps the responses.
RefreshHandler_keeps_responses(ss, bank) == [ss EXCEPT !.qbank = bank]

\* The refresh handler (lines 117-120): the bank loaded anew, no responses.
RefreshHandler(ss, bank) == [ss EXCEPT !.qbank = bank, !.responses = EmptyDict]

\* The sidebar (lines 111-147) of a started session.  st.number_input
\* raises when its value lies outside [min_value, max_value], which is the
\* case when the reloaded list is shorter than the index kept in the session.
Sidebar(ss, bank, ev, wid, h) ==
    LET subjs == get_subject_list(ss.qbank)
        new_subj ==
            IF ev.kind = "select" /\ wid = SelectboxId(subjs, ss.subject)
            THEN ev.subj
            ELSE IF ss.subject \in Range(subjs) THEN ss.subject
            ELSE FirstOrNone(subjs)
        total_q == Len(BankGet(ss.qbank, ss.subject))
        new_idx ==
            IF ev.kind = "index" /\ wid = NumberInputId(total_q, ss.qidx)
            THEN ev.num
            ELSE ss.qidx + 1
        s1 == [ss EXCEPT !.qidx = new_idx - 1]
    IN IF ev.kind = "refresh"
       THEN Rerun(RefreshHandler(ss, bank), h \cup {"refresh"})
       ELSE IF subjs # <<>> /\ new_subj # ss.subject
       THEN Rerun(SwitchSubject(ss, new_subj), h \cup {"switch"})
       ELSE IF total_q > 0 /\ (ss.qidx + 1 < 1 \/ ss.qidx + 1 > total_q)
       THEN Stop(ss, "number_input_exception", h)
       ELSE IF total_q > 0 /\ new_idx - 1 # ss.qidx
       THEN MainUI(s1, ev, wid, subjs, h \cup {"index"})
       ELSE MainUI(ss, ev, wid, subjs, h)

\* Mutant: returning to the landing screen also drops the responses.
OnReturnClick_clears(ss) == [ss EXCEPT !.started = FALSE, !.responses = EmptyDict]

\* on_click of "처음 화면으로" (line 113), run before the script.
OnReturnClick(ss) == [ss EXCEPT !.started = FALSE]

\* One run of the script on session ss with the file f on disk, triggered
\* by event ev on the widget of identity wid.
Script(ss, f, ev, wid) ==
    LET s0 == IF ev.kind = "return" THEN OnReturnClick(ss) ELSE ss
        h == IF ev.kind = "return" THEN {"return"} ELSE {}
        ld == load_questions(f)
        s1 == [s0 EXCEPT !.qbank = ld.data]
    IN IF ld.raised
       THEN Stop(s0, "load_exception", h)
       ELSE IF ~s1.started
       THEN IF ev.kind = "start"
            THEN Rerun([s1 EXCEPT !.started = TRUE], {"start"})
            ELSE [Stop(s1, "landing", h) EXCEPT
                     !.subjects = get_subject_list(s1.qbank)]
       ELSE [Sidebar(s1, ld.data, ev, wid, h) EXCEPT
                !.subjects = get_subject_list(s1.qbank)]

\* A user interaction: the run it triggers and the runs st.rerun() chains.
RECURSIVE RunFrom(_, _, _, _)
RunFrom(ss, f, ev, wid) ==
    LET first == { Script(ss, f, ev, wid) }
        chain == { IF r.rerun
                   THEN [RunFrom(r.ss, f, NoEvent, <<>>) EXCEPT
                            !.handled = r.handled \cup @]
                   ELSE r : r \in first }
    IN CHOOSE r \in chain : TRUE

-----------------------------------------------------------------------------
(* The session as a state machine *)

Session ==
    [qbank |-> qbank, subject |-> subject, qidx |-> qidx,
     responses |-> responses, started |-> started]

\* The state a user interaction ev leaves: the session and the page.
Apply(run, ev) ==
    \E r \in {run} :
    /\ qbank' = r.ss.qbank
    /\ subject' = r.ss.subject
    /\ qidx' = r.ss.qidx
    /\ responses' = r.ss.responses
    /\ started' = r.ss.started
    /\ screen' = r.screen
    /\ question' = r.question
    /\ saved_choice' = r.saved_choice
    /\ selected' = r.selected
    /\ feedback' = r.feedback
    /\ progress' = r.progress
    /\ subjects' = r.subjects
    /\ last' = ev
    /\ handled' = r.handled
    /\ UNCHANGED file

\* The first run of a session without keys: ensure_session_keys, then the
\* landing screen.  While the file is not JSON, line 44 raises before any
\* key is set, so the session begins with the first run that can load it.
FirstRun(f) ==
    RunFrom(ensure_session_keys(load_questions(f).data), f, NoEvent, <<>>)

Init ==
    /\ file \in { f \in Files : ~load_questions(f).raised }
    /\ \E r \in {FirstRun(file)} :
          /\ qbank = r.ss.qbank
          /\ subject = r.ss.subject
          /\ qidx = r.ss.qidx
          /\ responses = r.ss.responses
          /\ started = r.ss.started
          /\ screen = r.screen
          /\ question = r.question
          /\ saved_choice = r.saved_choice
          /\ selected = r.selected
          /\ feedback = r.feedback
          /\ progress = r.progress
          /\ subjects = r.subjects
          /\ handled = r.handled
    /\ last = Ev("new_session", NoSubject, 0)

\* The screens on which the sidebar's two buttons were rendered.
SidebarScreens == {"question", "no_subjects", "no_questions", "number_input_exception"}

\* "문제 풀기 시작 ▶" (line 103)
Start ==
    /\ screen = "landing"
    /\ Apply(RunFrom(Session, file, Ev("start", NoSubject, 0), <<>>),
             Ev("start", NoSubject, 0))

\* "처음 화면으로" (line 113)
ReturnToLanding ==
    /\ screen \in SidebarScreens
    /\ Apply(RunFrom(Session, file, Ev("return", NoSubject, 0), <<>>),
             Ev("return", NoSubject, 0))

\* "문제 새로고침" (line 116)
Refresh ==
    /\ screen \in SidebarScreens
    /\ Apply(RunFrom(Session, file, Ev("refresh", NoSubject, 0), <<>>),
             Ev("refresh", NoSubject, 0))

\* "교과 선택" (line 126): the user picks x among the options rendered.
\* Picking the option already shown changes no widget value: no run.
SelectSubject(x) ==
    /\ screen \in SidebarScreens
    /\ x \in Range(get_subject_list(qbank))
    /\ IF x = subject
       THEN /\ last' = Ev("select", x, 0)
            /\ handled' = {}
            /\ UNCHANGED <<file, qbank, subject, qidx, responses, started,
                           screen, question, saved_choice, selected, feedback,
                           progress, subjects>>
       ELSE Apply(RunFrom(Session, file, Ev("select", x, 0),
                          SelectboxId(get_subject_list(qbank), subject)),
                  Ev("select", x, 0))

\* "문항 번호" (line 142): the user enters n, within the rendered bounds.
DirectIndex(n) ==
    /\ screen = "question"
    /\ n \in 1..Len(BankGet(qbank, subject))
    /\ n # qidx + 1
    /\ Apply(RunFrom(Session, file, Ev("index", NoSubject, n),
                     NumberInputId(Len(BankGet(qbank, subject)), qidx)),
             Ev("index", NoSubject, n))

\* "정답 확인" (line 201) with choice c selected in the radio.
Check(c) ==
    /\ screen = "question"
    /\ c \in 0..(NumChoices(question) - 1)
    /\ Apply(RunFrom(Session, file, Ev("check", NoSubject, c),
                     RadioId(NumChoices(question),
                             Preselect(get_saved_choice(responses, subject, qidx),
                                       NumChoices(question)))),
             Ev("check", NoSubject, c))

\* "이전 문제" (line 203), rendered enabled
Prev ==
    /\ screen = "question"
    /\ qidx # 0
    /\ Apply(RunFrom(Session, file, Ev("prev", NoSubject, 0), <<>>),
             Ev("prev", NoSubject, 0))

\* "다음 문제" (line 205), rendered enabled
Nxt ==
    /\ screen = "question"
    /\ ~(qidx >= Len(BankGet(qbank, subject)) - 1)
    /\ Apply(RunFrom(Session, file, Ev("next", NoSubject, 0), <<>>),
             Ev("next", NoSubject, 0))

\* Any interaction without a handler (a new radio selection, the Rerun
\* command): the script runs again.
Rerender ==
    Apply(RunFrom(Session, file, NoEvent, <<>>), NoEvent)

\* Somebody rewrites, removes or corrupts data/questions.json.
FileChange ==
    /\ \E f \in Files \ {file} : file' = f
    /\ UNCHANGED <<qbank, subject, qidx, responses, started,
                   screen, question, saved_choice, selected, feedback, progress,
                   subjects, last, handled>>

Subjects == {"A", "B"}

Next ==
    \/ Start
    \/ ReturnToLanding
    \/ Refresh
    \/ \E x \in Subjects : SelectSubject(x)
    \/ \E n \in 1..(MaxQ + 1) : DirectIndex(n)
    \/ \E c \in 0..(FallbackChoices - 1) : Check(c)
    \/ Prev
    \/ Nxt
    \/ Rerender
    \/ FileChange

Spec == Init /\ [][Next]_vars

-----------------------------------------------------------------------------
(* Properties *)

\* The answer of the question the session points at, None when there is none.
AnswerAt(bank, subj, i) ==
    IF i + 1 \in DOMAIN BankGet(bank, subj)
    THEN BankGet(bank, subj)[i + 1].answer
    ELSE {}

\* The check handler recorded an answer in the last run.
Recorded(fb) == fb.kind \in {"correct", "incorrect", "incorrect_out_of_range"}

AnyCheck == \E c \in 0..(FallbackChoices - 1) : Check(c)
AnyDirectIndex == \E n \in 1..(MaxQ + 1) : DirectIndex(n)

\* No entry of the responses map is removed by the step.
NoEntryRemoved ==
    \A s \in DOMAIN responses :
        /\ s \in DOMAIN responses'
        /\ DOMAIN responses[s] \subseteq DOMAIN responses'[s]

\* C1: whenever a question is displayed, qidx is an index of the active
\* subject's question list and the displayed question is the one at qidx.
C1_IndexInBounds ==
    screen = "question" =>
        LET qlist == BankGet(qbank, subject)
        IN /\ 0 <= qidx
           /\ qidx <= Len(qlist) - 1
           /\ question = qlist[qidx + 1]

\* A question other than the first is displayed after a direct index entry.
C1_Witness ==
    /\ screen = "question"
    /\ "index" \in handled
    /\ qidx > 0

\* Every stored entry agrees with the bank: its question has an answer and
\* is_correct says whether the stored choice is that answer.
EntriesConsistent ==
    \A s \in DOMAIN responses : \A i \in DOMAIN responses[s] :
        /\ AnswerAt(qbank, s, i) # {}
        /\ responses[s][i].is_correct = (responses[s][i].choice \in AnswerAt(qbank, s, i))

\* C2: a check on a question with an answer stores, at the active subject
\* and index, the selected choice and whether it equals the answer; and a
\* step that leaves the bank unchanged keeps every stored entry in
\* agreement with the bank.
C2_CheckStores ==
    [][ /\ (AnyCheck /\ "check" \in handled' /\ AnswerAt(qbank', subject', qidx') # {}) =>
            /\ subject' \in DOMAIN responses'
            /\ qidx' \in DOMAIN responses'[subject']
            /\ responses'[subject'][qidx'] =
                   [choice |-> selected',
                    is_correct |-> (selected' \in AnswerAt(qbank', subject', qidx'))]
        /\ (qbank' = qbank /\ EntriesConsistent) => EntriesConsistent'
      ]_vars

\* A check has just recorded a right answer and another a wrong one.
C2_Witness ==
    /\ "check" \in handled
    /\ feedback.kind = "correct"
    /\ Cardinality(DOMAIN RespGet(responses, subject)) = 2
    /\ \E i \in DOMAIN responses[subject] : ~responses[subject][i].is_correct

\* C3: a check on a question that already has an entry replaces that entry
\* by the new choice and its correctness, and the subject has as many
\* entries as before.
C3_Overwrite ==
    [][ (/\ AnyCheck
         /\ "check" \in handled'
         /\ Recorded(feedback')
         /\ qidx' \in DOMAIN RespGet(responses, subject')) =>
            /\ responses'[subject'][qidx'] =
                   [choice |-> selected',
                    is_correct |-> (selected' \in AnswerAt(qbank', subject', qidx'))]
            /\ DOMAIN responses' = DOMAIN responses
            /\ DOMAIN responses'[subject'] = DOMAIN responses[subject']
            /\ \A i \in DOMAIN responses[subject'] \ {qidx'} :
                   responses'[subject'][i] = responses[subject'][i]
      ]_vars

\* A second check has replaced a right answer by a different, wrong one.
C3_Witness ==
    /\ "check" \in handled
    /\ saved_choice # {}
    /\ selected \notin saved_choice
    /\ saved_choice = question.answer
    /\ feedback.kind = "incorrect"
    /\ ~responses[subject][qidx].is_correct

\* C4: a check that repeats the previous check (same subject, index and
\* choice, against the same answer) leaves the responses map as it was.
C4_Idempotent ==
    [][ (/\ AnyCheck
         /\ "check" \in handled /\ Recorded(feedback)
         /\ "check" \in handled' /\ Recorded(feedback')
         /\ subject' = subject /\ qidx' = qidx
         /\ selected' = selected
         /\ question'.answer = question.answer) =>
            responses' = responses
      ]_vars

\* The same choice has been checked again on a question that had an entry
\* while another question of the subject has an entry too.
C4_Witness ==
    /\ "check" \in handled
    /\ Recorded(feedback)
    /\ saved_choice = {selected}
    /\ Cardinality(DOMAIN RespGet(responses, subject)) = 2

\* C5: a check on a question without an answer reports the missing answer,
\* and records nothing and moves nothing.
C5_MissingAnswer ==
    [][ (AnyCheck /\ "check" \in handled' /\ question'.answer = {}) =>
            /\ feedback'.kind = "answer_missing"
            /\ responses' = responses
            /\ subject' = subject
            /\ qidx' = qidx
      ]_vars

\* A question without an answer has been checked.
C5_Witness ==
    /\ "check" \in handled
    /\ screen = "question"
    /\ question.answer = {}

\* The answer index of q is not an index of its choices.
AnswerOutOfChoices(q) ==
    /\ q.answer # {}
    /\ \A a \in q.answer : a < 0 \/ a >= q.choices

\* C6: a check on a question whose answer index is not an index of its
\* choices reports an error, records nothing and presents no choice as the
\* correct answer.
C6_OutOfRangeIsMalformed ==
    [][ (AnyCheck /\ "check" \in handled' /\ AnswerOutOfChoices(question')) =>
            /\ feedback'.kind \in {"incorrect_out_of_range", "answer_missing"}
            /\ responses' = responses
            /\ feedback'.shown = {}
      ]_vars


\* The selectbox is rebuilt with the options it was rendered with, so the
\* user's pick reaches the run.
SelectDelivered ==
    /\ ~load_questions(file).raised
    /\ get_subject_list(load_questions(file).data) = get_subject_list(qbank)

\* C7: picking another subject makes it the active subject, sets the index
\* to 0 and empties the responses map; after any subject switch the index
\* is 0 and the map is empty; picking the active subject changes nothing.
C7_SubjectSwitch ==
    [][ /\ \A x \in Subjects :
            /\ (SelectSubject(x) /\ x # subject /\ SelectDelivered) =>
                   /\ "switch" \in handled'
                   /\ subject' = x
                   /\ qidx' = 0
                   /\ responses' = EmptyDict
            /\ (SelectSubject(x) /\ x = subject) =>
                   UNCHANGED <<qbank, subject, qidx, responses, started, screen, question>>
        /\ "switch" \in handled' => (qidx' = 0 /\ responses' = EmptyDict)
      ]_vars

\* The user has picked another subject and the switch handler has run.
C7_Witness ==
    /\ last.kind = "select"
    /\ "switch" \in handled
    /\ subject = last.subj
    /\ screen = "question"

\* C8 as stated: entries are removed only by a pick in the subject
\* selectbox or by refresh; return and start leave responses, subject and
\* index unchanged; prev, next, direct index entry and check remove nothing.
C8_OnlyExplicitSwitchOrRefresh ==
    [][ /\ NoEntryRemoved \/ Refresh \/ (\E x \in Subjects : SelectSubject(x))
        /\ (ReturnToLanding \/ Start) =>
               (responses' = responses /\ subject' = subject /\ qidx' = qidx)
        /\ (Prev \/ Nxt \/ AnyDirectIndex \/ AnyCheck) => NoEntryRemoved
      ]_vars

\* C8 amended: entries are removed only by a run of the subject switch
\* handler (after a pick, or when the reloaded bank no longer offers the
\* active subject) or of the refresh handler; return leaves responses,
\* subject and index unchanged, and so does start unless its run switches
\* the subject.
C8_OnlySwitchOrRefresh ==
    [][ /\ NoEntryRemoved \/ "switch" \in handled' \/ "refresh" \in handled'
        /\ ReturnToLanding =>
               (responses' = responses /\ subject' = subject /\ qidx' = qidx)
        /\ (Start /\ "switch" \notin handled') =>
               (responses' = responses /\ subject' = subject /\ qidx' = qidx)
      ]_vars

\* The session is back on the question screen after a return and a start,
\* past its first question, with its entries still recorded.
C8_Witness ==
    /\ last.kind = "start"
    /\ handled = {"start"}
    /\ screen = "question"
    /\ qidx > 0
    /\ Cardinality(DOMAIN RespGet(responses, subject)) = 2

\* C9: the return button is available whenever the session is started, and
\* the start button whenever it is not.
C9_AlwaysEscapable ==
    /\ started => ENABLED ReturnToLanding
    /\ ~started => ENABLED Start

\* The first subject of the bank, in bank order, that get_subject_list
\* offers: one with questions, or any when no subject has questions.
FirstSelectable(bank) ==
    LET ok(i) == Len(bank[i].qs) > 0 \/ \A j \in DOMAIN bank : Len(bank[j].qs) = 0
    IN IF bank = <<>>
       THEN NoSubject
       ELSE bank[CHOOSE i \in DOMAIN bank : ok(i) /\ \A j \in 1..(i - 1) : ~ok(j)].name

\* C10: a new session shows the landing screen with index 0, no responses,
\* and the first selectable subject of the bank (None without subjects).
C10_NewSession ==
    last.kind = "new_session" =>
        /\ ~started
        /\ screen = "landing"
        /\ qidx = 0
        /\ responses = EmptyDict
        /\ subject = FirstSelectable(qbank)

\* A new session whose bank starts with a subject without questions.
C10_Witness ==
    /\ last.kind = "new_session"
    /\ subject # NoSubject
    /\ qbank[1].name # subject

\* A step of the previous (next) button in which its handler ran.
PrevHandled == last'.kind = "prev" /\ "prev" \in handled' /\ Prev
NextHandled == last'.kind = "next" /\ "next" \in handled' /\ Nxt

\* C11: the previous and next buttons are clamped and never fail.  A run of
\* the previous handler takes the index from qidx to qidx - 1, and the
\* button is enabled exactly when qidx > 0; a run of the next handler takes
\* it to qidx + 1 exactly when qidx is before the last question of the list
\* the run loaded and leaves it otherwise, and the button is enabled
\* exactly when qidx is before the last question shown; either ends on a
\* question and changes neither the subject nor the responses.
C11_SequentialNavigation ==
    /\ [](screen = "question" =>
              /\ (ENABLED Prev) <=> (qidx > 0)
              /\ (ENABLED Nxt) <=> (qidx < Len(BankGet(qbank, subject)) - 1))
    /\ [][ /\ PrevHandled =>
                 /\ qidx > 0
                 /\ qidx' = qidx - 1
           /\ NextHandled =>
                 qidx' = IF qidx < Len(BankGet(qbank', subject)) - 1
                         THEN qidx + 1
                         ELSE qidx
           /\ (PrevHandled \/ NextHandled) =>
                 /\ screen' = "question"
                 /\ subject' = subject
                 /\ responses' = responses
         ]_vars

\* A step back from the second question, with an answer on record.
C11_Witness ==
    /\ last.kind = "prev"
    /\ "prev" \in handled
    /\ qidx = 0
    /\ responses # EmptyDict

\* C12: on the question screen the progress summary is shown and reports
\* as solved the number of entries of the responses of the active subject,
\* as total the number of questions of its list, and as correct the number
\* of those entries whose is_correct is true; no other screen shows it.
C12_ProgressSummary ==
    LET r == IF subject \in DOMAIN responses THEN responses[subject] ELSE <<>>
        right == {i \in DOMAIN r : r[i].is_correct}
        wrong == {i \in DOMAIN r : ~r[i].is_correct}
    IN IF screen = "question"
       THEN /\ progress.shown
            /\ progress.solved = Cardinality(DOMAIN r)
            /\ progress.total = Len(BankGet(qbank, subject))
            /\ progress.correct = Cardinality(right)
            /\ progress.solved - progress.correct = Cardinality(wrong)
       ELSE progress = NoProgress

\* Two questions solved, one of them correctly.
C12_Witness ==
    /\ screen = "question"
    /\ progress.solved = 2
    /\ progress.correct = 1
    /\ progress.total = 2

\* A step in which the script ran: every interaction but a rewrite of the
\* file and a pick of the option the selectbox already shows.
RunStep == file' = file /\ ~(last'.kind = "select" /\ last'.subj = subject)

\* The choice on record at (subj, i): a set of at most one element.
ChoiceAt(resp, subj, i) ==
    {resp[s][j].choice : <<s, j>> \in {<<s, j>> \in {subj} \X {i} :
                                        s \in DOMAIN resp /\ j \in DOMAIN resp[s]}}

\* C13: the saved choice shown with a question is the choice most recently
\* recorded for the active subject and index, and none when nothing is on
\* record there.  A check records the selected choice at the active subject
\* and index; an entry keeps its choice over every step in which neither
\* the subject switch handler nor the refresh handler runs, unless a check
\* at its index replaces it; and a run that shows a question shows as saved
\* choice the entry on record at that index when the run began its main
\* part.  So a choice c checked at index i is the saved choice whenever the
\* user comes back to i by prev, next, direct entry or return and start.
C13_SavedChoiceRoundTrip ==
    [][ /\ RunStep /\ screen' = "question" =>
              saved_choice' =
                  ChoiceAt(IF "check" \in handled' THEN responses ELSE responses',
                           subject', qidx')
        /\ RunStep /\ "check" \in handled' /\ Recorded(feedback') =>
              ChoiceAt(responses', subject', qidx') = {selected'}
        /\ ~RunStep => responses' = responses
        /\ RunStep /\ "switch" \notin handled' /\ "refresh" \notin handled' =>
              \A s \in DOMAIN responses : \A i \in DOMAIN responses[s] :
                  \/ ChoiceAt(responses', s, i) = {responses[s][i].choice}
                  \/ /\ "check" \in handled'
                     /\ s = subject' /\ i = qidx'
                     /\ ChoiceAt(responses', s, i) = {selected'}
      ]_vars

\* Back on the first question by the previous button, its saved choice 1
\* on record, while the second question has an entry too.
C13_Witness ==
    /\ last.kind = "prev"
    /\ "prev" \in handled
    /\ screen = "question"
    /\ qidx = 0
    /\ saved_choice = {1}
    /\ 1 \in DOMAIN RespGet(responses, subject)

\* C14: loading the question file never aborts the session: whether the
\* file is absent, unreadable or malformed, no run ends in the exception of
\* the load, with nothing of the page rendered.
C14_LoadNeverAborts == screen # "load_exception"

\* C15: load_questions returns the empty bank when the file is absent, and
\* for a JSON file a bank with exactly the subjects of the file, in the
\* file's order: a subject whose value is null is kept with the empty list,
\* every other subject keeps its list unchanged.  Every run stores the bank
\* the load returned for the file as it is at the time of the run.
C15_LoadQuestions ==
    [][ RunStep =>
            /\ file.kind = "absent" => qbank' = <<>>
            /\ file.kind = "json" =>
                  /\ Len(qbank') = Len(file.data)
                  /\ \A i \in DOMAIN file.data :
                        /\ qbank'[i].name = file.data[i].name
                        /\ file.data[i].null => qbank'[i].qs = <<>>
                        /\ ~file.data[i].null => qbank'[i].qs = file.data[i].qs
      ]_vars

\* A bank loaded from a file with a null subject and a subject with
\* questions, after a run of a started session.
C15_Witness ==
    /\ started
    /\ file.kind = "json"
    /\ Len(qbank) = Len(file.data)
    /\ \E i \in DOMAIN file.data :
          /\ file.data[i].null
          /\ qbank[i] = [name |-> file.data[i].name, qs |-> <<>>]
    /\ \E j \in DOMAIN file.data :
          /\ ~file.data[j].null
          /\ qbank[j].qs = file.data[j].qs
          /\ qbank[j].qs # <<>>

\* C16: the selectable subject list of a run is, in bank order, exactly the
\* subjects whose question list is non-empty; when no subject has a
\* non-empty list it is all subjects of the bank, in bank order.
C16_SelectableSubjects ==
    LET full == {i \in DOMAIN qbank : Len(qbank[i].qs) > 0}
        pick == IF full = {} THEN DOMAIN qbank ELSE full
        nth(k) == CHOOSE i \in pick : Cardinality({j \in pick : j < i}) = k - 1
    IN screen # "load_exception" =>
          /\ Len(subjects) = Cardinality(pick)
          /\ \A k \in DOMAIN subjects : subjects[k] = qbank[nth(k)].name

\* A bank whose first subject is empty and whose second is not: only the
\* second is selectable.
C16_Witness ==
    /\ started
    /\ Len(qbank) = 2
    /\ qbank[1].qs = <<>>
    /\ qbank[2].qs # <<>>
    /\ subjects = <<qbank[2].name>>

\* A step of the refresh button in which its handler ran.
RefreshHandled == last'.kind = "refresh" /\ "refresh" \in handled' /\ Refresh

\* C17: refresh reloads the bank from the file and clears all responses,
\* and leaves started, the active subject and the current index unchanged.
C17_RefreshFrame ==
    [][ RefreshHandled =>
            /\ qbank' = load_questions(file).data
            /\ responses' = EmptyDict
            /\ started' = started
            /\ subject' = subject
            /\ qidx' = qidx
      ]_vars

\* C17 amended: refresh reloads the bank from the file, clears all
\* responses and leaves started unchanged; it leaves the active subject and
\* the current index unchanged as long as the reloaded bank still offers
\* the active subject; otherwise the run that follows the refresh switches
\* to the first selectable subject of the reloaded bank, with index 0.
C17_RefreshFrameUnlessSwitch ==
    [][ RefreshHandled =>
            /\ qbank' = load_questions(file).data
            /\ responses' = EmptyDict
            /\ started' = started
            /\ IF subject \in Range(get_subject_list(qbank')) \/ qbank' = <<>>
               THEN subject' = subject /\ qidx' = qidx
               ELSE subject' = FirstSelectable(qbank') /\ qidx' = 0
      ]_vars

\* After a refresh on the second question, without a switch: no responses,
\* the question at the index kept.
C17_Witness ==
    /\ last.kind = "refresh"
    /\ handled = {"refresh"}
    /\ responses = EmptyDict
    /\ screen = "question"
    /\ qidx = 1

\* C18: the responses map holds entries for at most one subject, and that
\* subject is the active subject.
C18_OneSubjectInResponses ==
    /\ Cardinality(DOMAIN responses) <= 1
    /\ \A s \in DOMAIN responses : s = subject

\* An answer on record for a subject the user switched to: the active
\* subject is not the one a new session on this bank begins with.
C18_Witness ==
    /\ DOMAIN responses = {subject}
    /\ "check" \in handled
    /\ subject # FirstSelectable(qbank)
    /\ FirstSelectable(qbank) \in Range(subjects)

\* C19: in every state, also after a run reloaded a changed file, every
\* index in the responses of the active subject is an index of the active
\* subject's question list, so that the solved count reported never
\* exceeds the total reported.
C19_ResponsesInRange ==
    /\ \A i \in DOMAIN RespGet(responses, subject) :
          0 <= i /\ i < Len(BankGet(qbank, subject))
    /\ progress.shown => progress.solved <= progress.total

=============================================================================
